---- MODULE Spec2Model ----
(***************************************************************************)
(* Lamport (1978) distributed lock of swfrench/lamport-go.                 *)
(*                                                                         *)
(* N peers, each with an application goroutine (Acquire / critical section *)
(* / Release, as in the demo) and a servicing goroutine (serviceMessage).  *)
(* Every peer owns one buffered inbound channel shared by all senders.     *)
(* The request queue is a container/heap binary heap over MessageHeap.     *)
(***************************************************************************)
EXTENDS Integers, Sequences, FiniteSets, TLC

\* ---------------------------------------------------------------- bounds
N == 3
MaxAcquires == 3

Procs == 0 .. (N - 1)

\* ------------------------------------------------------ message protocol
MessageRequest == 0
MessageRelease == 1
MessageAck == 2

Message(type, proc, t) == [Type |-> type, Proc |-> proc, Time |-> t]

\* capacity of every inbound channel in the demo that checks the critical
\* section with a shared test variable: make(chan lamport.Message, 512)
\* (the plain demos use make(chan lamport.Message, n))
TestChanCap == 512

\* MessageHeap.Less on two messages
Less(a, b) == IF a.Time < b.Time THEN TRUE ELSE a.Proc < b.Proc

\* MessageHeap.Swap, on 0-based positions i, j of the backing slice
Swap(h, i, j) == [h EXCEPT ![i + 1] = h[j + 1], ![j + 1] = h[i + 1]]

\* container/heap up(h, j)
RECURSIVE up(_, _)
up(h, j) ==
    LET i == IF j = 0 THEN 0 ELSE (j - 1) \div 2
    IN  IF i = j \/ ~Less(h[j + 1], h[i + 1])
        THEN h
        ELSE up(Swap(h, i, j), i)

\* container/heap down(h, i0, n)
RECURSIVE down(_, _, _)
down(h, i, n) ==
    LET j1 == 2 * i + 1
        j2 == j1 + 1
    IN  IF j1 >= n
        THEN h
        ELSE LET j == IF j2 < n /\ Less(h[j2 + 1], h[j1 + 1]) THEN j2 ELSE j1
             IN  IF ~Less(h[j + 1], h[i + 1])
                 THEN h
                 ELSE down(Swap(h, i, j), j, n)

\* heap.Push(h, x): MessageHeap.Push appends, then up(h, Len-1)
HeapPush(h, x) == up(Append(h, x), Len(h))

\* heap.Pop(h): Swap(0, n), down(0, n), MessageHeap.Pop removes the last
HeapPopped(h) ==
    LET n == Len(h) - 1
    IN  down(Swap(h, 0, n), 0, n)
HeapPopValue(h) == HeapPopped(h)[Len(h)]
HeapPopRest(h) == SubSeq(HeapPopped(h), 1, Len(h) - 1)

\* processMessage, MessageRelease branch: pop everything, keep the entries
\* of the other peers in pop order
RECURSIVE DrainKept(_, _)
DrainKept(h, proc) ==
    IF Len(h) = 0
    THEN << >>
    ELSE LET req == HeapPopValue(h)
             rest == DrainKept(HeapPopRest(h), proc)
         IN  IF req.Proc # proc THEN <<req>> \o rest ELSE rest

RECURSIVE PushAll(_, _)
PushAll(h, kept) ==
    IF Len(kept) = 0 THEN h ELSE PushAll(HeapPush(h, Head(kept)), Tail(kept))

RemoveMatching(h, proc) == PushAll(<< >>, DrainKept(h, proc))

VARIABLES
    time,      \* time[p]: LamportLockState.time
    seen,      \* seen[p][q]: LamportLockState.seen
    reqs,      \* reqs[p]: LamportLockState.reqs (heap slice)
    chns,      \* chns[p]: contents of peer p's inbound channel
    cap,       \* buffer capacity the harness gave every inbound channel
    lock,      \* lock[p]: holder of LamportLockState.lock
    pc,        \* pc[p]: position of peer p's application goroutine
    idx,       \* idx[p]: next target of the broadcast loop in progress
    ackTo,     \* ackTo[p]: target of the Ack the servicer is sending
    tvar,      \* the demo's shared test variable
    tval,      \* tval[p]: the demo's sampled value
    reqTime,   \* reqTime[p]: Time of the Request of p's current Acquire
    acquires,  \* number of Acquire calls made so far
    halted     \* the process has exited (log.Fatal or panic)

vars == <<time, seen, reqs, chns, cap, lock, pc, idx, ackTo, tvar, tval, reqTime, acquires, halted>>

NoTarget == N

\* first index >= i of the range loop that is not the peer itself
NextTarget(p, i) == IF i = p THEN i + 1 ELSE i

\* initState + Start for every peer, and the channels and the test
\* variable of the demo that checks the critical section
Init ==
    /\ cap = TestChanCap
    /\ time = [p \in Procs |-> 1]
    /\ seen = [p \in Procs |-> [q \in Procs |-> 0]]
    /\ reqs = [p \in Procs |-> << >>]
    /\ chns = [p \in Procs |-> << >>]
    /\ lock = [p \in Procs |-> "free"]
    /\ pc = [p \in Procs |-> "idle"]
    /\ idx = [p \in Procs |-> NoTarget]
    /\ ackTo = [p \in Procs |-> NoTarget]
    /\ tvar = 0
    /\ tval = [p \in Procs |-> 0]
    /\ reqTime = [p \in Procs |-> 0]
    /\ acquires = 0
    /\ halted = FALSE

\* allProcessesSeen with the test i != s.proc left out
allProcessesSeenOwnCounted(p, t) == \A q \in Procs : seen[p][q] >= t

\* allProcessesSeen returning true without looking at seen
allProcessesSeenSkipped(p, t) == \A q \in Procs : q # p => seen[p][q] >= 0

\* allProcessesSeen(time) at peer p
allProcessesSeen(p, t) == \A q \in Procs : q # p => seen[p][q] >= t

\* haveLock() at peer p (evaluated under the state mutex)
haveLock(p) ==
    /\ Len(reqs[p]) > 0
    /\ reqs[p][1].Proc = p
    /\ allProcessesSeen(p, reqs[p][1].Time)

\* ------------------------------------------------- application goroutine

\* sendRequestMsg: lock, advance time, enter the send loop
AcquireBegin(p) ==
    /\ ~halted
    /\ pc[p] = "idle"
    /\ acquires < MaxAcquires
    /\ lock[p] = "free"
    /\ lock' = [lock EXCEPT ![p] = "app"]
    /\ time' = [time EXCEPT ![p] = time[p] + 1]
    /\ pc' = [pc EXCEPT ![p] = "reqSend"]
    /\ idx' = [idx EXCEPT ![p] = NextTarget(p, 0)]
    /\ reqTime' = [reqTime EXCEPT ![p] = time[p] + 1]
    /\ acquires' = acquires + 1
    /\ UNCHANGED <<cap, seen, reqs, chns, ackTo, tvar, tval, halted>>

\* sendRequestMsg: one channel send of the loop; after the last one the
\* request is pushed on the local heap and the mutex released
SendRequest(p) ==
    /\ ~halted
    /\ pc[p] = "reqSend"
    /\ Len(chns[idx[p]]) < cap
    /\ LET m == Message(MessageRequest, p, time[p])
           nxt == NextTarget(p, idx[p] + 1)
       IN  /\ chns' = [chns EXCEPT ![idx[p]] = Append(@, m)]
           /\ IF nxt < N
              THEN /\ idx' = [idx EXCEPT ![p] = nxt]
                   /\ UNCHANGED <<reqs, lock, pc>>
              ELSE /\ idx' = [idx EXCEPT ![p] = NoTarget]
                   /\ reqs' = [reqs EXCEPT ![p] = HeapPush(@, m)]
                   /\ lock' = [lock EXCEPT ![p] = "free"]
                   /\ pc' = [pc EXCEPT ![p] = "wait"]
    /\ UNCHANGED <<cap, time, seen, ackTo, tvar, tval, reqTime, acquires, halted>>

\* Acquire: the polling loop sees haveLock() true and returns
AcquireReturn(p) ==
    /\ ~halted
    /\ pc[p] = "wait"
    /\ lock[p] = "free"
    /\ haveLock(p)
    /\ pc' = [pc EXCEPT ![p] = "held"]
    /\ UNCHANGED <<cap, time, seen, reqs, chns, lock, idx, ackTo, tvar, tval, reqTime, acquires, halted>>

\* demo: atomic.StoreInt32(ptvar, myProc)
StoreTvar(p) ==
    /\ ~halted
    /\ pc[p] = "held"
    /\ tvar' = p
    /\ pc' = [pc EXCEPT ![p] = "stored"]
    /\ UNCHANGED <<cap, time, seen, reqs, chns, lock, idx, ackTo, tval, reqTime, acquires, halted>>

\* demo: tval := atomic.LoadInt32(ptvar)
SampleTvar(p) ==
    /\ ~halted
    /\ pc[p] = "stored"
    /\ tval' = [tval EXCEPT ![p] = tvar]
    /\ pc' = [pc EXCEPT ![p] = "sampled"]
    /\ UNCHANGED <<cap, time, seen, reqs, chns, lock, idx, ackTo, tvar, reqTime, acquires, halted>>

\* sendReleaseMsg with the haveLock() check left out
ReleaseCheckMissing(p) ==
    /\ ~halted
    /\ pc[p] = "sampled"
    /\ lock[p] = "free"
    /\ pc' = [pc EXCEPT ![p] = "relLock"]
    /\ UNCHANGED <<cap, time, seen, reqs, chns, lock, idx, ackTo, tvar, tval, reqTime, acquires, halted>>

\* sendReleaseMsg: the haveLock() check; log.Fatal when it fails
ReleaseCheck(p) ==
    /\ ~halted
    /\ pc[p] = "sampled"
    /\ lock[p] = "free"
    /\ IF haveLock(p)
       THEN /\ pc' = [pc EXCEPT ![p] = "relLock"]
            /\ UNCHANGED halted
       ELSE /\ pc' = [pc EXCEPT ![p] = "fatal"]
            /\ halted' = TRUE
    /\ UNCHANGED <<cap, time, seen, reqs, chns, lock, idx, ackTo, tvar, tval, reqTime, acquires>>

\* sendReleaseMsg: lock, advance time, enter the send loop
ReleaseBegin(p) ==
    /\ ~halted
    /\ pc[p] = "relLock"
    /\ lock[p] = "free"
    /\ lock' = [lock EXCEPT ![p] = "app"]
    /\ time' = [time EXCEPT ![p] = time[p] + 1]
    /\ pc' = [pc EXCEPT ![p] = "relSend"]
    /\ idx' = [idx EXCEPT ![p] = NextTarget(p, 0)]
    /\ UNCHANGED <<cap, seen, reqs, chns, ackTo, tvar, tval, reqTime, acquires, halted>>

\* sendReleaseMsg: one channel send of the loop; after the last one
\* heap.Pop removes the front of the local heap and the mutex is released
SendRelease(p) ==
    /\ ~halted
    /\ pc[p] = "relSend"
    /\ Len(chns[idx[p]]) < cap
    /\ LET m == Message(MessageRelease, p, time[p])
           nxt == NextTarget(p, idx[p] + 1)
       IN  /\ chns' = [chns EXCEPT ![idx[p]] = Append(@, m)]
           /\ IF nxt < N
              THEN /\ idx' = [idx EXCEPT ![p] = nxt]
                   /\ UNCHANGED <<reqs, lock, pc, halted>>
              ELSE /\ idx' = [idx EXCEPT ![p] = NoTarget]
                   /\ IF Len(reqs[p]) > 0
                      THEN /\ reqs' = [reqs EXCEPT ![p] = HeapPopRest(@)]
                           /\ lock' = [lock EXCEPT ![p] = "free"]
                           /\ pc' = [pc EXCEPT ![p] = "released"]
                           /\ UNCHANGED halted
                      ELSE /\ pc' = [pc EXCEPT ![p] = "fatal"]
                           /\ halted' = TRUE
                           /\ UNCHANGED <<reqs, lock>>
    /\ UNCHANGED <<cap, time, seen, ackTo, tvar, tval, reqTime, acquires>>

\* demo: check the sampled test variable, then Done
CheckTval(p) ==
    /\ ~halted
    /\ pc[p] = "released"
    /\ IF tval[p] # p
       THEN /\ pc' = [pc EXCEPT ![p] = "fatal"]
            /\ halted' = TRUE
       ELSE /\ pc' = [pc EXCEPT ![p] = "idle"]
            /\ UNCHANGED halted
    /\ UNCHANGED <<cap, time, seen, reqs, chns, lock, idx, ackTo, tvar, tval, reqTime, acquires>>

\* --------------------------------------------------- servicing goroutine

\* processMessage(m): the update of state.time from the message, and the
\* same update with the comparison lost (time overwritten like seen)
OverwrittenTime(t, m) == m.Time

\* the update of state.time from the message with an increment added
MergedTimePlusOne(t, m) == IF m.Time > t THEN m.Time + 1 ELSE t + 1
MergedTime(t, m) == IF m.Time > t THEN m.Time ELSE t

\* serviceMessage with processMessage queueing and answering an Ack as
\* it does a Request
ServiceMessageAckQueued(p) ==
    /\ ~halted
    /\ lock[p] = "free"
    /\ Len(chns[p]) > 0
    /\ LET m == Head(chns[p])
       IN  /\ chns' = [chns EXCEPT ![p] = Tail(@)]
           /\ seen' = [seen EXCEPT ![p][m.Proc] = m.Time]
           /\ IF m.Type # MessageRelease
              THEN /\ reqs' = [reqs EXCEPT ![p] = HeapPush(@, m)]
                   /\ time' = [time EXCEPT ![p] = MergedTime(time[p], m) + 1]
                   /\ lock' = [lock EXCEPT ![p] = "svc"]
                   /\ ackTo' = [ackTo EXCEPT ![p] = m.Proc]
              ELSE /\ time' = [time EXCEPT ![p] = MergedTime(time[p], m)]
                   /\ reqs' = [reqs EXCEPT ![p] = RemoveMatching(@, m.Proc)]
                   /\ UNCHANGED <<lock, ackTo>>
    /\ UNCHANGED <<cap, pc, idx, tvar, tval, reqTime, acquires, halted>>

\* serviceMessage: lock, receive one message, processMessage; for a
\* Request the Ack send is left pending with the mutex still held
ServiceMessage(p) ==
    /\ ~halted
    /\ lock[p] = "free"
    /\ Len(chns[p]) > 0
    /\ LET m == Head(chns[p])
       IN  /\ chns' = [chns EXCEPT ![p] = Tail(@)]
           /\ seen' = [seen EXCEPT ![p][m.Proc] = m.Time]
           /\ IF m.Type = MessageRequest
              THEN /\ reqs' = [reqs EXCEPT ![p] = HeapPush(@, m)]
                   /\ time' = [time EXCEPT ![p] = MergedTime(time[p], m) + 1]
                   /\ lock' = [lock EXCEPT ![p] = "svc"]
                   /\ ackTo' = [ackTo EXCEPT ![p] = m.Proc]
              ELSE /\ time' = [time EXCEPT ![p] = MergedTime(time[p], m)]
                   /\ reqs' = [reqs EXCEPT ![p] =
                                  IF m.Type = MessageRelease
                                  THEN RemoveMatching(@, m.Proc)
                                  ELSE @]
                   /\ UNCHANGED <<lock, ackTo>>
    /\ UNCHANGED <<cap, pc, idx, tvar, tval, reqTime, acquires, halted>>

\* sendAckMsg with the channel send left out
SendAckDropped(p) ==
    /\ ~halted
    /\ lock[p] = "svc"
    /\ lock' = [lock EXCEPT ![p] = "free"]
    /\ ackTo' = [ackTo EXCEPT ![p] = NoTarget]
    /\ UNCHANGED <<cap, time, seen, reqs, chns, pc, idx, tvar, tval, reqTime, acquires, halted>>

\* sendAckMsg answering with the time of the Request instead of the
\* incremented clock
SendAckEcho(p) ==
    /\ ~halted
    /\ lock[p] = "svc"
    /\ Len(chns[ackTo[p]]) < cap
    /\ chns' = [chns EXCEPT ![ackTo[p]] =
                   Append(@, Message(MessageAck, p, seen[p][ackTo[p]]))]
    /\ lock' = [lock EXCEPT ![p] = "free"]
    /\ ackTo' = [ackTo EXCEPT ![p] = NoTarget]
    /\ UNCHANGED <<cap, time, seen, reqs, pc, idx, tvar, tval, reqTime, acquires, halted>>

\* sendAckMsg: the channel send, then serviceMessage unlocks
SendAck(p) ==
    /\ ~halted
    /\ lock[p] = "svc"
    /\ Len(chns[ackTo[p]]) < cap
    /\ chns' = [chns EXCEPT ![ackTo[p]] = Append(@, Message(MessageAck, p, time[p]))]
    /\ lock' = [lock EXCEPT ![p] = "free"]
    /\ ackTo' = [ackTo EXCEPT ![p] = NoTarget]
    /\ UNCHANGED <<cap, time, seen, reqs, pc, idx, tvar, tval, reqTime, acquires, halted>>

Next ==
    \E p \in Procs :
        \/ AcquireBegin(p)
        \/ SendRequest(p)
        \/ AcquireReturn(p)
        \/ StoreTvar(p)
        \/ SampleTvar(p)
        \/ ReleaseCheck(p)
        \/ ReleaseBegin(p)
        \/ SendRelease(p)
        \/ CheckTval(p)
        \/ ServiceMessage(p)
        \/ SendAck(p)

Spec == Init /\ [][Next]_vars

\* ---------------------------------------------------- the plain demo

\* capacity of every inbound channel in the plain demo:
\* make(chan lamport.Message, n)
DemoChanCap == N

\* initState + Start for every peer, with the channels of the plain demo
DemoInit ==
    /\ cap = DemoChanCap
    /\ time = [p \in Procs |-> 1]
    /\ seen = [p \in Procs |-> [q \in Procs |-> 0]]
    /\ reqs = [p \in Procs |-> << >>]
    /\ chns = [p \in Procs |-> << >>]
    /\ lock = [p \in Procs |-> "free"]
    /\ pc = [p \in Procs |-> "idle"]
    /\ idx = [p \in Procs |-> NoTarget]
    /\ ackTo = [p \in Procs |-> NoTarget]
    /\ tvar = 0
    /\ tval = [p \in Procs |-> 0]
    /\ reqTime = [p \in Procs |-> 0]
    /\ acquires = 0
    /\ halted = FALSE

\* Demo: log.Println(myProc, "Have lock") between Acquire and Release
DemoHaveLock(p) ==
    /\ ~halted
    /\ pc[p] = "held"
    /\ pc' = [pc EXCEPT ![p] = "sampled"]
    /\ UNCHANGED <<cap, time, seen, reqs, chns, lock, idx, ackTo, tvar, tval, reqTime, acquires, halted>>

\* Demo: log.Println(myProc, "Released lock") and group.Done(); the worker
\* goroutine ends
DemoDone(p) ==
    /\ ~halted
    /\ pc[p] = "released"
    /\ pc' = [pc EXCEPT ![p] = "done"]
    /\ UNCHANGED <<cap, time, seen, reqs, chns, lock, idx, ackTo, tvar, tval, reqTime, acquires, halted>>

DemoNext ==
    \E p \in Procs :
        \/ AcquireBegin(p)
        \/ SendRequest(p)
        \/ AcquireReturn(p)
        \/ DemoHaveLock(p)
        \/ ReleaseCheck(p)
        \/ ReleaseBegin(p)
        \/ SendRelease(p)
        \/ DemoDone(p)
        \/ ServiceMessage(p)
        \/ SendAck(p)

DemoSpec == DemoInit /\ [][DemoNext]_vars

\* ------------------------------------------- a caller breaking the contract

\* Release called by a peer that has not called Acquire: sendReleaseMsg's
\* haveLock() check; log.Fatal when it fails
ReleaseUnheld(p) ==
    /\ ~halted
    /\ pc[p] = "idle"
    /\ lock[p] = "free"
    /\ IF haveLock(p)
       THEN /\ pc' = [pc EXCEPT ![p] = "relLock"]
            /\ UNCHANGED halted
       ELSE /\ pc' = [pc EXCEPT ![p] = "fatal"]
            /\ halted' = TRUE
    /\ UNCHANGED <<cap, time, seen, reqs, chns, lock, idx, ackTo, tvar, tval, reqTime, acquires>>

MisuseNext ==
    \/ DemoNext
    \/ \E p \in Procs : ReleaseUnheld(p)

MisuseSpec == DemoInit /\ [][MisuseNext]_vars

\* ------------------------------------------------ uncontended acquisition

\* Acquire called by peer p while no other peer is between its Acquire and
\* the end of its Release
UncontendedAcquireBegin(p) ==
    /\ \A q \in Procs \ {p} : pc[q] \in {"idle", "done"}
    /\ AcquireBegin(p)

\* the steps of the goroutine of the demo that runs peer p, once it has
\* called Acquire
AppStep(p) ==
    \/ SendRequest(p)
    \/ AcquireReturn(p)
    \/ DemoHaveLock(p)
    \/ ReleaseCheck(p)
    \/ ReleaseBegin(p)
    \/ SendRelease(p)
    \/ DemoDone(p)

\* the steps of the servicing goroutine started by Start for peer p
ServiceStep(p) ==
    \/ ServiceMessage(p)
    \/ SendAck(p)

UncontendedNext ==
    \E p \in Procs :
        \/ UncontendedAcquireBegin(p)
        \/ AppStep(p)
        \/ ServiceStep(p)

\* the Go scheduler runs every runnable goroutine eventually; nothing makes
\* a caller call Acquire
UncontendedSpec ==
    /\ DemoInit
    /\ [][UncontendedNext]_vars
    /\ \A p \in Procs : WF_vars(AppStep(p)) /\ WF_vars(ServiceStep(p))

\* ------------------------------------------------------------ vocabulary

\* the order the documentation states: logicalTime ascending, then
\* originPeer ascending
LexLess(a, b) == a.Time < b.Time \/ (a.Time = b.Time /\ a.Proc < b.Proc)

\* peer p's Acquire has returned and it has not yet called Release
InSection(p) == pc[p] \in {"held", "stored", "sampled"}

\* peer p is inside Acquire, its Request built and not yet granted
Pending(p) == pc[p] \in {"reqSend", "wait"}

\* the Request peer p built in its current Acquire
OwnRequest(p) == Message(MessageRequest, p, reqTime[p])

\* number of entries of heap h equal to message m
Count(h, m) == Cardinality({i \in DOMAIN h : h[i] = m})

\* entries of h not originated by p, as a multiset
SameOthers(h1, h2, p) ==
    \A i \in DOMAIN h1 \cup DOMAIN h2 :
        LET m == IF i \in DOMAIN h1 THEN h1[i] ELSE h2[i]
            n == IF i \in DOMAIN h2 THEN h2[i] ELSE h1[i]
        IN  /\ (m.Proc # p => Count(h1, m) = Count(h2, m))
            /\ (n.Proc # p => Count(h1, n) = Count(h2, n))

\* no goroutine has a step left unless a peer calls Acquire again: nothing
\* is in flight, no mutex is held, nobody is in or leaving the section, and
\* no waiting peer's haveLock() is true
AtRest ==
    \A p \in Procs :
        /\ chns[p] = << >>
        /\ lock[p] = "free"
        /\ pc[p] \in {"idle", "wait"}
        /\ (pc[p] = "wait" => ~haveLock(p))

NoEntryOf(h, p) == \A i \in DOMAIN h : h[i].Proc # p

\* the channel a goroutine of peer p holding the state mutex sends into
SendTarget(p) == IF lock[p] = "app" THEN idx[p] ELSE ackTo[p]

\* a goroutine of peer p holds the state mutex and its channel send finds
\* the target's inbound channel full
BlockedSending(p) ==
    /\ lock[p] # "free"
    /\ ~halted
    /\ Len(chns[SendTarget(p)]) >= cap

\* --------------------------------------------------------------- claims

\* C1: HaveLock is never true at two different peers at once.
C1_MutexHaveLock ==
    \A p \in Procs : \A q \in Procs :
        p # q => ~(lock[p] = "free" /\ haveLock(p) /\ lock[q] = "free" /\ haveLock(q))

\* C2: at most one peer is between the return of its Acquire and its call
\* of Release, and the value a holder samples in the section is its own.
C2_MutexSection ==
    /\ \A p \in Procs : \A q \in Procs : p # q => ~(InSection(p) /\ InSection(q))
    /\ \A p \in Procs : pc[p] = "sampled" => tval[p] = p

\* C3: a peer waiting in Acquire eventually has its Acquire return.  Every
\* message is sent and received once, so a run in which no further Acquire
\* is called comes to rest; the claim requires that no peer is still
\* waiting in Acquire once the system is at rest.
C3_Progress ==
    AtRest => \A p \in Procs : pc[p] # "wait"

\* C4: while A's and B's Requests are both pending and A's (time, peer)
\* pair is smaller, B's Acquire does not return.
C4_OrderingFairness ==
    [][\A a \in Procs : \A b \in Procs :
          (a # b /\ Pending(a) /\ pc[b] = "wait"
                 /\ LexLess(OwnRequest(a), OwnRequest(b)))
          => pc'[b] # "held"]_vars

\* C5: from the return of Acquire until Release has taken the state mutex,
\* HaveLock stays true, so Release never aborts.
C5_HoldingStable ==
    /\ \A p \in Procs : (InSection(p) \/ pc[p] = "relLock") => haveLock(p)
    /\ \A p \in Procs : pc[p] # "fatal"

\* C6: Release removes the releasing peer's Request from its own queue, a
\* processed Release message removes it from the receiver's queue, and both
\* leave the entries of the other peers as they were.
C6_ReleaseCorrect ==
    [][\A p \in Procs :
          /\ (pc[p] = "relSend" /\ pc'[p] = "released")
                => (NoEntryOf(reqs'[p], p) /\ SameOthers(reqs[p], reqs'[p], p))
          /\ (Len(chns'[p]) < Len(chns[p]) /\ Head(chns[p]).Type = MessageRelease)
                => ( /\ NoEntryOf(reqs'[p], Head(chns[p]).Proc)
                     /\ SameOthers(reqs[p], reqs'[p], Head(chns[p]).Proc) )]_vars

\* C7: on the messages of a queue, Less is the lexicographic order on
\* (logicalTime, originPeer): exactly one of Less(a,b), Less(b,a) holds.
C7_LessIsTotalOrder ==
    \A p \in Procs : \A i \in DOMAIN reqs[p] : \A j \in DOMAIN reqs[p] :
        LET a == reqs[p][i]
            b == reqs[p][j]
        IN  a # b => /\ (Less(a, b) <=> LexLess(a, b))
                     /\ (Less(a, b) <=> ~Less(b, a))

\* C8: the front of every queue is its minimum under the order
\* logicalTime ascending, then originPeer ascending.
C8_FrontIsMinimum ==
    \A p \in Procs : \A i \in DOMAIN reqs[p] : ~LexLess(reqs[p][i], reqs[p][1])

\* C9: logicalClock never decreases, and after processing a message it is
\* at least the message's logicalTime.
C9_ClockMonotone ==
    [][\A p \in Procs :
          /\ time'[p] >= time[p]
          /\ (Len(chns'[p]) < Len(chns[p]) => time'[p] >= Head(chns[p]).Time)]_vars

\* a peer whose clock was ahead has processed a message carrying an older
\* time: its clock stays above that time
C9_Witness ==
    \E p \in Procs : \E q \in Procs :
        p # q /\ seen[p][q] > 0 /\ time[p] > seen[p][q] + 1

\* C10: every queue holds only Requests, at most one per originating peer.
C10_QueueContent ==
    \A p \in Procs :
        /\ \A i \in DOMAIN reqs[p] : reqs[p][i].Type = MessageRequest
        /\ \A i \in DOMAIN reqs[p] : \A j \in DOMAIN reqs[p] :
              reqs[p][i].Proc = reqs[p][j].Proc => i = j

\* C11: with inbound channels of capacity N no send of a Request, Release
\* or Ack finds its target channel full.
C11_SendsNeverBlock ==
    \A p \in Procs : ~BlockedSending(p)

\* C12: with inbound channels of capacity N there is no set of peers each
\* of which holds its state mutex blocked on a send into the full inbound
\* channel of a peer of the set (whose servicer can then never drain it).
C12_NoSendDeadlock ==
    \A S \in SUBSET Procs :
        S # {} => \E p \in S : ~(BlockedSending(p) /\ SendTarget(p) \in S)

\* C13: a Release called while HaveLock is false aborts the process, and
\* the aborting step sends nothing and changes neither logicalClock nor
\* lastSeenTime nor pendingRequests; only a Release called while HaveLock
\* is true goes on to take the mutex; nothing happens after the abort.
C13_ReleaseWithoutLock ==
    [][\A p \in Procs :
          /\ (pc[p] \in {"idle", "sampled"} /\ pc'[p] = "fatal")
                => ( /\ ~haveLock(p)
                     /\ halted'
                     /\ UNCHANGED <<time, seen, reqs, chns>> )
          /\ (pc[p] = "sampled" /\ ~haveLock(p) /\ pc'[p] # pc[p])
                => pc'[p] = "fatal"
          /\ (pc[p] \in {"idle", "sampled"} /\ pc'[p] = "relLock")
                => haveLock(p)
          /\ halted => UNCHANGED <<time, seen, reqs, chns>>]_vars

\* a Release called on an empty queue, and one called with another peer's
\* Request in front, have aborted
C13_Witness ==
    \E p \in Procs :
        /\ pc[p] = "fatal"
        /\ halted
        /\ ~haveLock(p)
        /\ Len(reqs[p]) > 0
        /\ reqs[p][1].Proc # p

\* C14: whenever HaveLock is true at peer p with front Request r, no other
\* peer q has a Request ordered before r that is undelivered in p's
\* inbound channel or that q is in the middle of sending, and q's clock
\* has reached r's time, so every Request q sends later is ordered after r.
C14_NoEarlierRequest ==
    \A p \in Procs : haveLock(p) =>
        LET r == reqs[p][1]
        IN  \A q \in Procs \ {p} :
               /\ \A i \in 1 .. Len(chns[p]) :
                     (chns[p][i].Type = MessageRequest /\ chns[p][i].Proc = q)
                        => LexLess(r, chns[p][i])
               /\ (pc[q] = "reqSend" /\ idx[q] <= p)
                     => LexLess(r, Message(MessageRequest, q, time[q]))
               /\ time[q] >= r.Time

\* HaveLock is true at p while a later Request of another peer is still
\* undelivered in p's inbound channel
C14_Witness ==
    \E p \in Procs :
        /\ haveLock(p)
        /\ \E i \in 1 .. Len(chns[p]) :
              /\ chns[p][i].Type = MessageRequest
              /\ LexLess(reqs[p][1], chns[p][i])

\* the predicate HaveLock is documented to compute: the queue is non-empty,
\* its front is the peer's own Request, and every other peer has been seen
\* at or after the front's time
StatedHaveLock(p) ==
    /\ reqs[p] # <<>>
    /\ Head(reqs[p]).Proc = p
    /\ \A q \in Procs \ {p} : seen[p][q] >= Head(reqs[p]).Time

\* C15: HaveLock is true exactly when the queue is non-empty, its front is
\* the peer's own and every other peer's seen time is at least the front's
\* time (the peer's own entry ignored); the steps that evaluate it (the
\* polling loop of Acquire returning, the check at the start of Release)
\* act on that value and change neither time, seen, reqs nor any channel.
C15_HaveLockPredicate ==
    [][\A p \in Procs :
          /\ haveLock(p) <=> StatedHaveLock(p)
          /\ (pc[p] = "wait" /\ pc'[p] = "held")
                => (StatedHaveLock(p) /\ UNCHANGED <<time, seen, reqs, chns>>)
          /\ (pc[p] = "sampled" /\ pc'[p] = "relLock")
                => (StatedHaveLock(p) /\ UNCHANGED <<time, seen, reqs, chns>>)
          /\ (pc[p] = "sampled" /\ pc'[p] = "fatal")
                => (~StatedHaveLock(p) /\ UNCHANGED <<time, seen, reqs, chns>>)]_vars

\* one peer's Acquire has returned on a true HaveLock while another peer
\* polls with its own Request in front and a seen time still below it
C15_Witness ==
    \E p, q \in Procs :
        /\ pc[p] = "held"
        /\ StatedHaveLock(p)
        /\ pc[q] = "wait"
        /\ reqs[q] # <<>>
        /\ Head(reqs[q]).Proc = q
        /\ ~StatedHaveLock(q)
        /\ seen[q][q] < Head(reqs[q]).Time

\* the messages of origin q waiting in channel p, in channel order
FromOrigin(p, q) == SelectSeq(chns[p], LAMBDA m : m.Proc = q)

\* C16: seen[p][q] is the running maximum of the times of the messages p
\* has processed from q: it starts at 0, every processed message carries a
\* time above the current entry and becomes the new entry, nothing else
\* changes it, and the messages of one origin waiting in a channel carry
\* strictly increasing times; hence no entry of seen ever decreases.
C16_SeenRunningMax ==
    [][\A p, q \in Procs :
          /\ seen'[p][q] >= seen[p][q]
          /\ seen'[p][q] # seen[p][q]
                => ( /\ chns[p] # <<>>
                     /\ chns'[p] = Tail(chns[p])
                     /\ Head(chns[p]).Proc = q
                     /\ seen'[p][q] = Head(chns[p]).Time )
          /\ (chns[p] # <<>> /\ chns'[p] = Tail(chns[p]) /\ Head(chns[p]).Proc = q)
                => ( /\ seen'[p][q] = Head(chns[p]).Time
                     /\ Head(chns[p]).Time > seen[p][q] )
          /\ LET w == FromOrigin(p, q)
             IN  /\ \A i \in 1 .. Len(w) : w[i].Time > seen[p][q]
                 /\ \A i, j \in 1 .. Len(w) : i < j => w[i].Time < w[j].Time]_vars

\* a peer has seen time 6 of one origin and two more messages of that
\* origin are waiting
C16_Witness ==
    \E p, q \in Procs :
        /\ seen[p][q] >= 6
        /\ Len(FromOrigin(p, q)) >= 2

\* C17: processing a received Request m at peer p takes the maximum of
\* time[p] and m.Time and adds one for the Ack, pushes m (and nothing
\* else) on reqs[p], and leaves exactly one Ack pending for m.Proc; the
\* Ack is stamped with that clock, goes into the origin's channel only,
\* and so carries a time greater than the Request it answers.
C17_RequestHandling ==
    [][\A p \in Procs :
          /\ (chns[p] # <<>> /\ chns'[p] = Tail(chns[p])
                /\ Head(chns[p]).Type = MessageRequest)
                => LET m == Head(chns[p])
                   IN  /\ time'[p] = (IF m.Time > time[p] THEN m.Time ELSE time[p]) + 1
                       /\ Len(reqs'[p]) = Len(reqs[p]) + 1
                       /\ \A i \in DOMAIN reqs'[p] :
                             Count(reqs'[p], reqs'[p][i]) =
                                Count(reqs[p], reqs'[p][i])
                                   + (IF reqs'[p][i] = m THEN 1 ELSE 0)
                       /\ Count(reqs'[p], m) = Count(reqs[p], m) + 1
                       /\ lock[p] = "free" /\ lock'[p] = "svc"
                       /\ ackTo'[p] = m.Proc
                       /\ seen[p][m.Proc] < m.Time /\ seen'[p][m.Proc] = m.Time
                       /\ chns' = [chns EXCEPT ![p] = Tail(@)]
          /\ (lock[p] # "svc" /\ lock'[p] = "svc")
                => (chns[p] # <<>> /\ Head(chns[p]).Type = MessageRequest)
          /\ (lock[p] = "svc" /\ lock'[p] # "svc")
                => /\ lock'[p] = "free"
                   /\ chns' = [chns EXCEPT ![ackTo[p]] =
                                   Append(@, Message(MessageAck, p, time[p]))]
                   /\ ackTo[p] # p
                   /\ time[p] > seen[p][ackTo[p]]
                   /\ UNCHANGED <<time[p], reqs[p], seen[p]>>
          /\ (lock[p] = "svc" /\ lock'[p] = "svc")
                => /\ UNCHANGED <<time[p], reqs[p], seen[p], ackTo[p]>>
                   /\ \A q \in Procs :
                         Len(chns'[q]) > Len(chns[q])
                            => chns'[q][Len(chns'[q])].Proc # p]_vars

\* an Ack with a time above the Request it answers waits in the channel of
\* a peer polling in Acquire, stamped once by a clock that was ahead of
\* the Request and once by a clock that was behind it
C17_Witness ==
    \E p \in Procs :
        /\ pc[p] = "wait"
        /\ \E i, j \in 1 .. Len(chns[p]) :
              /\ chns[p][i].Type = MessageAck
              /\ chns[p][i].Time = reqTime[p] + 1
              /\ chns[p][j].Type = MessageAck
              /\ chns[p][j].Time > reqTime[p] + 1

\* the Ack of peer q for the pending Request of peer p has not been
\* processed by p: the Request is not sent or not received, or the Ack is
\* not sent or not received
AckOutstanding(p, q) ==
    \/ pc[p] = "reqSend" /\ idx[p] <= q
    \/ \E i \in 1 .. Len(chns[q]) : chns[q][i] = OwnRequest(p)
    \/ lock[q] = "svc" /\ ackTo[q] = p
    \/ \E i \in 1 .. Len(chns[p]) :
          chns[p][i].Type = MessageAck /\ chns[p][i].Proc = q

\* C18: while one peer p has called Acquire and no other peer has, HaveLock
\* at p is false as long as the Ack of some other peer is outstanding and
\* true once p has processed an Ack of every other peer; and every
\* Acquire called while the other peers are idle or have released returns.
C18_UncontendedProceeds ==
    /\ [](\A p \in Procs :
             (acquires = 1 /\ pc[p] \in {"reqSend", "wait"})
                => (haveLock(p) <=> \A q \in Procs \ {p} : ~AckOutstanding(p, q)))
    /\ \A p \in Procs : (pc[p] = "wait") ~> (pc[p] = "held")

\* a peer holds the lock after another peer has acquired and released it
C18_Witness ==
    \E p, q \in Procs :
        /\ pc[p] = "done"
        /\ pc[q] = "held"
        /\ haveLock(q)

\* C19: processing an Ack m at peer p changes only seen[p][m.Proc], which
\* becomes m.Time, and time[p], which becomes the maximum of itself and
\* m.Time: reqs is unchanged, no channel gains a message, the mutex is
\* free again and no Ack is left pending.
C19_AckFrame ==
    [][\A p \in Procs :
          (chns[p] # <<>> /\ chns'[p] = Tail(chns[p])
             /\ Head(chns[p]).Type = MessageAck)
             => LET m == Head(chns[p])
                IN  /\ seen' = [seen EXCEPT ![p][m.Proc] = m.Time]
                    /\ time' = [time EXCEPT ![p] =
                                   IF m.Time > time[p] THEN m.Time ELSE time[p]]
                    /\ chns' = [chns EXCEPT ![p] = Tail(@)]
                    /\ UNCHANGED <<reqs, lock, ackTo>>]_vars

\* the only requester has processed the Acks of all other peers, which
\* raised its clock to their time: its queue still holds its own Request
\* alone and nothing is in flight
C19_Witness ==
    \E p \in Procs :
        /\ acquires = 1
        /\ pc[p] = "wait"
        /\ reqs[p] = <<OwnRequest(p)>>
        /\ \A q \in Procs \ {p} : seen[p][q] > reqTime[p]
        /\ \E q \in Procs \ {p} : seen[p][q] = time[p]
        /\ \A q \in Procs : chns[q] = <<>> /\ lock[q] = "free"

\* every peer that called Acquire has returned from its Release, every
\* channel is empty and no goroutine is inside the state mutex
Quiescent ==
    \A p \in Procs :
        /\ pc[p] \in {"idle", "released"}
        /\ chns[p] = <<>>
        /\ lock[p] = "free"

\* C20: in every quiescent state (all Acquires released, all channels
\* empty) the request queue of every peer is empty.
C20_Quiescence == Quiescent => \A p \in Procs : reqs[p] = <<>>

====
